---- MODULE Spec2Model ----
(***************************************************************************)
(* human-id: prefix + "_" + base-N encoding of the text of a UUID v7.      *)
(*                                                                         *)
(* Strings are sequences of character codes (ASCII), bytes are 0..255.     *)
(* Big integers are big-endian sequences of base-256 limbs, so that every  *)
(* intermediate value stays far below 2^31.                                *)
(***************************************************************************)
EXTENDS Integers, Sequences, FiniteSets, TLC

(***************************************************************************)
(* Bounds of the model.                                                    *)
(***************************************************************************)
MaxLen == 3
MaxCalls == 2
MaxTicks == 1
MaxInv == 2
MaxPairLen == 2

(***************************************************************************)
(* Generic helpers on sequences.                                           *)
(***************************************************************************)
Range(a, b) == [i \in 1..(b - a + 1) |-> a + i - 1]

Repeat(x, n) == [i \in 1..n |-> x]

Reverse(s) == [i \in 1..Len(s) |-> s[Len(s) + 1 - i]]

Elems(s) == {s[i] : i \in 1..Len(s)}

\* number of leading elements of s equal to x
LeadingCount(s, x) ==
  LET other == {i \in 1..Len(s) : s[i] # x}
  IN  IF other = {} THEN Len(s)
      ELSE (CHOOSE i \in other : \A j \in other : i <= j) - 1

\* sequences over S of length 0..n
SeqsUpTo(S, n) == UNION {[1..k -> S] : k \in 0..n}

(***************************************************************************)
(* Alphabets.                                                              *)
(***************************************************************************)
\* the 62-character alphabet with its last character mistyped as "_"
Alphabet62_typo == Range(48, 57) \o Range(97, 122) \o Range(65, 89) \o <<95>>

\* "0123456789abcdefghijklmnopqrstuvwxyzABCDEFGHIJKLMNOPQRSTUVWXYZ"
Alphabet62 == Range(48, 57) \o Range(97, 122) \o Range(65, 90)

\* "123456789ABCDEFGHJKLMNPQRSTUVWXYZabcdefghijkmnopqrstuvwxyz"
Alphabet58 ==
  Range(49, 57) \o Range(65, 72) \o Range(74, 78) \o Range(80, 90)
    \o Range(97, 107) \o Range(109, 122)

\* a lookup that takes a character outside the alphabet for the digit 0
DigitOf_lenient(A, c) ==
  IF c \in Elems(A) THEN (CHOOSE i \in 1..Len(A) : A[i] = c) - 1 ELSE 0

\* the digit value of character c in alphabet A, -1 when c is not in A
DigitOf(A, c) ==
  IF c \in Elems(A) THEN (CHOOSE i \in 1..Len(A) : A[i] = c) - 1 ELSE -1

(***************************************************************************)
(* Big unsigned integers as sequences of base-256 limbs; <<>> is zero.     *)
(* Division reads the limbs most significant first, multiplication least   *)
(* significant first: the order in which the remainder, respectively the   *)
(* carry, travels.  Both work on a range lo..hi of limbs by halving it:    *)
(* the schoolbook limb-by-limb loop, the remainder or carry handed from    *)
(* the first half to the second.                                           *)
(***************************************************************************)
StripZeros(num) == SubSeq(num, LeadingCount(num, 0) + 1, Len(num))

\* limbs lo..hi of the big-endian num divided by d, r the remainder so far
RECURSIVE DivSeg(_, _, _, _, _)
DivSeg(num, d, lo, hi, r) ==
  IF lo = hi
  THEN LET cur == r * 256 + num[lo]
       IN  [quot |-> <<cur \div d>>, rem |-> cur % d]
  ELSE LET mid  == (lo + hi) \div 2
           high == DivSeg(num, d, lo, mid, r)
           low  == DivSeg(num, d, mid + 1, hi, high.rem)
       IN  [quot |-> high.quot \o low.quot, rem |-> low.rem]

\* divide-by-small-constant-with-remainder on a big-endian num that is not zero
DivMod(num, d) ==
  LET dm == DivSeg(num, d, 1, Len(num), 0)
  IN  [quot |-> StripZeros(dm.quot), rem |-> dm.rem]

\* limbs lo..hi of the little-endian acc times N, carry the carry so far
RECURSIVE MulSeg(_, _, _, _, _)
MulSeg(acc, N, lo, hi, carry) ==
  IF lo = hi
  THEN LET cur == acc[lo] * N + carry
       IN  [limbs |-> <<cur % 256>>, carry |-> cur \div 256]
  ELSE LET mid  == (lo + hi) \div 2
           low  == MulSeg(acc, N, lo, mid, carry)
           high == MulSeg(acc, N, mid + 1, hi, low.carry)
       IN  [limbs |-> low.limbs \o high.limbs, carry |-> high.carry]

\* multiply-by-small-constant and add-small-constant on a little-endian acc:
\* acc * N + d, for d < N <= 256
MulAdd(acc, N, d) ==
  IF Len(acc) = 0 THEN (IF d = 0 THEN <<>> ELSE <<d>>)
  ELSE LET m == MulSeg(acc, N, 1, Len(acc), d)
       IN  IF m.carry = 0 THEN m.limbs ELSE Append(m.limbs, m.carry)

(***************************************************************************)
(* Radix encoder.                                                          *)
(***************************************************************************)
\* at most n rounds of: divide num by N, taking the remainder as the next
\* digit (least significant first), until num is zero.  n rounds are the
\* first n \div 2 rounds followed by the rest.
RECURSIVE DivideRounds(_, _, _)
DivideRounds(num, N, n) ==
  IF num = <<>> \/ n = 0 THEN [digits |-> <<>>, num |-> num]
  ELSE IF n = 1
  THEN LET dm == DivMod(num, N)
       IN  [digits |-> <<dm.rem>>, num |-> dm.quot]
  ELSE LET first == DivideRounds(num, N, n \div 2)
           rest  == DivideRounds(first.num, N, n - n \div 2)
       IN  [digits |-> first.digits \o rest.digits, num |-> rest.num]

\* the base-N digits of num, least significant first; a base-256 limb holds
\* less than two base-N digits for N > 16
ToDigits(num, N) == DivideRounds(num, N, 2 * Len(num)).digits

\* plain big-integer encoding: the leading zero bytes are dropped
encode_bigint(bytes, A) ==
  LET digits == Reverse(ToDigits(StripZeros(bytes), Len(A)))
  IN  [i \in 1..Len(digits) |-> A[digits[i] + 1]]

encode(bytes, A) ==
  LET z == LeadingCount(bytes, 0)
      digits == Reverse(ToDigits(StripZeros(bytes), Len(A)))
  IN  Repeat(A[1], z) \o [i \in 1..Len(digits) |-> A[digits[i] + 1]]

\* the accumulator after the characters lo..hi of text, most significant
\* first: for each character, fail when it is not in the alphabet, else
\* multiply the accumulator by N and add the character's digit value.  After
\* a failure the remaining characters are not read.  The characters lo..hi
\* are the first half followed by the second.
RECURSIVE FromDigits(_, _, _, _, _)
FromDigits(text, A, lo, hi, acc) ==
  IF ~acc.ok \/ lo > hi THEN acc
  ELSE IF lo = hi
  THEN IF DigitOf(A, text[lo]) = -1
       THEN [ok |-> FALSE, limbs |-> <<>>]
       ELSE [ok |-> TRUE,
             limbs |-> MulAdd(acc.limbs, Len(A), DigitOf(A, text[lo]))]
  ELSE LET mid == (lo + hi) \div 2
       IN  FromDigits(text, A, mid + 1, hi, FromDigits(text, A, lo, mid, acc))

\* a decoder that returns the minimal bytes of the integer alone
decode_minimal(text, A) ==
  LET n == FromDigits(text, A, 1, Len(text), [ok |-> TRUE, limbs |-> <<>>])
  IN  IF n.ok
      THEN [ok |-> TRUE, bytes |-> Reverse(n.limbs)]
      ELSE [ok |-> FALSE, error |-> "InvalidCharacter"]

decode(text, A) ==
  LET z == LeadingCount(text, A[1])
      n == FromDigits(text, A, z + 1, Len(text), [ok |-> TRUE, limbs |-> <<>>])
  IN  IF n.ok
      THEN [ok |-> TRUE, bytes |-> Repeat(0, z) \o Reverse(n.limbs)]
      ELSE [ok |-> FALSE, error |-> "InvalidCharacter"]

(***************************************************************************)
(* Characters, JavaScript strings and Buffers.                             *)
(***************************************************************************)
Underscore == 95

\* the lowercase hexadecimal digit of n in 0..15
HexChar(n) == IF n < 10 THEN 48 + n ELSE 87 + n

IsHexChar(c) == c \in 48..57 \/ c \in 97..102

\* the UTF-8 bytes of one character of a string
Utf8Char(c) == IF c < 128 THEN <<c>> ELSE <<192 + (c \div 64), 128 + (c % 64)>>

RECURSIVE Utf8(_, _, _)
Utf8(str, lo, hi) ==
  IF lo > hi THEN <<>>
  ELSE IF lo = hi THEN Utf8Char(str[lo])
  ELSE LET mid == (lo + hi) \div 2
       IN  Utf8(str, lo, mid) \o Utf8(str, mid + 1, hi)

\* Buffer.from(str): the UTF-8 bytes of the string
BufferFrom(str) == Utf8(str, 1, Len(str))

\* a < b for strings compared by character code, as JavaScript's < does,
\* and for byte sequences compared bytewise, as Buffer.compare does
LexLess(a, b) ==
  \E k \in 1..(Len(b)) :
    /\ k <= Len(a) + 1
    /\ \A i \in 1..(k - 1) : a[i] = b[i]
    /\ k <= Len(a) => a[k] < b[k]

LexLeq(a, b) == a = b \/ LexLess(a, b)

(***************************************************************************)
(* The time-ordered unique-value generator, v7() of the uuid package, and  *)
(* the clock it reads.  A time is <<hi, lo>>, the upper and lower 24 bits  *)
(* of the 48-bit millisecond count.                                        *)
(***************************************************************************)
\* the clock reading when the program starts: 0x019309ffffff
T0 == <<103177, 16777215>>

AddMs(t, d) == <<t[1] + ((t[2] + d) \div 16777216), (t[2] + d) % 16777216>>

Later(a, b) == a[1] > b[1] \/ (a[1] = b[1] /\ a[2] > b[2])

Bytes3(n) == <<n \div 65536, (n \div 256) % 256, n % 256>>

\* the random draws of one call: the counter seed and the trailing bytes
Rnds == {[seq |-> 0, tail |-> 0], [seq |-> 2748, tail |-> 255]}

\* the generator's state after a call at time t with the random draw rnd:
\* a later millisecond reseeds the counter, the same one increments it
V7State(state, t, rnd) ==
  IF Later(t, state.msecs) THEN [msecs |-> t, seq |-> rnd.seq]
  ELSE IF state.seq + 1 < 4096 THEN [msecs |-> state.msecs, seq |-> state.seq + 1]
  ELSE [msecs |-> AddMs(state.msecs, 1), seq |-> 0]

\* the 16 bytes: 48-bit big-endian timestamp, version 7 and the counter,
\* variant 10 and random bits
V7Bytes(state, rnd) ==
  Bytes3(state.msecs[1]) \o Bytes3(state.msecs[2])
    \o <<112 + (state.seq \div 256), state.seq % 256, 128 + (rnd.tail % 64)>>
    \o Repeat(rnd.tail, 7)

\* the canonical text of 16 bytes: 8-4-4-4-12 lowercase hexadecimal digits
Stringify(bytes) ==
  LET hex(i) == <<HexChar(bytes[i] \div 16), HexChar(bytes[i] % 16)>>
      run(a, b) == [k \in 1..(2 * (b - a + 1)) |-> hex(a + ((k - 1) \div 2))[1 + ((k - 1) % 2)]]
  IN  run(1, 4) \o <<45>> \o run(5, 6) \o <<45>> \o run(7, 8) \o <<45>>
        \o run(9, 10) \o <<45>> \o run(11, 16)

\* validate(uuid) && version(uuid) === 7
IsUuidV7(str) ==
  /\ Len(str) = 36
  /\ \A i \in 1..36 :
       IF i \in {9, 14, 19, 24} THEN str[i] = 45 ELSE IsHexChar(str[i])
  /\ str[15] = 55
  /\ str[20] \in {56, 57, 97, 98}

(***************************************************************************)
(* Identifier composer.                                                    *)
(***************************************************************************)
Undefined == [type |-> "undefined"]

Str(chars) == [type |-> "string", chars |-> chars]

\* humanId testing the prefix for truth instead of for undefined
humanId_truthy(prefix, uuid) ==
  LET encodedId == encode(BufferFrom(uuid), Alphabet62)
  IN  IF prefix.type # "undefined" /\ prefix.chars # <<>>
      THEN prefix.chars \o <<Underscore>> \o encodedId
      ELSE encodedId

\* humanId as it was when the prefix was required: `${prefix}_${encodedId}`
\* whatever the prefix, "undefined" for an absent one
humanId_required(prefix, uuid) ==
  LET encodedId == encode(BufferFrom(uuid), Alphabet62)
      shown == IF prefix.type # "undefined" THEN prefix.chars
               ELSE <<117, 110, 100, 101, 102, 105, 110, 101, 100>>
  IN  shown \o <<Underscore>> \o encodedId

\* humanId with Buffer.from(v7(), 'hex'): the bytes of the hexadecimal pairs
\* of the text up to its first character that is no hexadecimal digit
humanId_hex(prefix, uuid) ==
  LET val(c) == IF c < 58 THEN c - 48 ELSE c - 87
      bad == {i \in 1..Len(uuid) : ~IsHexChar(uuid[i])}
      n == IF bad = {} THEN Len(uuid)
           ELSE (CHOOSE i \in bad : \A j \in bad : i <= j) - 1
      bytes == [k \in 1..(n \div 2) |->
                  16 * val(uuid[2 * k - 1]) + val(uuid[2 * k])]
      encodedId == encode(bytes, Alphabet62)
  IN  IF prefix.type # "undefined"
      THEN prefix.chars \o <<Underscore>> \o encodedId
      ELSE encodedId

\* humanId encoding the bytes of the text in reverse order
humanId_reversed(prefix, uuid) ==
  LET encodedId == encode(Reverse(BufferFrom(uuid)), Alphabet62)
  IN  IF prefix.type # "undefined"
      THEN prefix.chars \o <<Underscore>> \o encodedId
      ELSE encodedId

\* humanId encoding the 16 bytes of the UUID instead of the bytes of its text
humanId_parsed(prefix, uuid) ==
  LET val(c) == IF c < 58 THEN c - 48 ELSE c - 87
      digits == SelectSeq(uuid, IsHexChar)
      bytes == [k \in 1..16 |->
                  16 * val(digits[2 * k - 1]) + val(digits[2 * k])]
      encodedId == encode(bytes, Alphabet62)
  IN  IF prefix.type # "undefined"
      THEN prefix.chars \o <<Underscore>> \o encodedId
      ELSE encodedId

\* humanId with `${prefix ?? ''}_${encodedId}`: an absent prefix composed as
\* the empty one
humanId_nullish(prefix, uuid) ==
  LET encodedId == encode(BufferFrom(uuid), Alphabet62)
      shown == IF prefix.type # "undefined" THEN prefix.chars ELSE <<>>
  IN  shown \o <<Underscore>> \o encodedId

\* src/index.ts: the prefix is optional
humanId(prefix, uuid) ==
  LET encodedId == encode(BufferFrom(uuid), Alphabet62)
  IN  IF prefix.type # "undefined"
      THEN prefix.chars \o <<Underscore>> \o encodedId
      ELSE encodedId

\* the base58 variant: the prefix is required
humanUUID(prefix, uuid) ==
  LET encodedId == encode(BufferFrom(uuid), Alphabet58)
  IN  prefix.chars \o <<Underscore>> \o encodedId

(***************************************************************************)
(* State.                                                                  *)
(***************************************************************************)
VARIABLES
  variant,   \* the build: "base62" (humanId) or "base58" (humanUUID)
             \* and with it the alphabet of the encoder
  now,       \* the system clock, in milliseconds
  v7state,   \* the generator's state: last timestamp and counter
  calls,     \* the calls made so far, in real-time order
  src,       \* the byte sequence last given to encode
  enc,       \* what encode returned for src
  text,      \* the string last given to decode
  dec,       \* what decode returned for text
  pc,        \* "idle", "encoded", "roundtrip", "decoded" or "compared"
  inv,       \* the invocations in progress: for each, its position, its
             \* argument, its locals and what it returned or raised
  pair       \* two byte sequences of one length and their encodings

vars == <<variant, now, v7state, calls, src, enc, text, dec, pc, inv, pair>>

genVars == <<variant, now, v7state, calls>>

codecVars == <<src, enc, text, dec, pc>>

\* "" and "api_key"
Prefixes == {Str(<<>>), Str(<<97, 112, 105, 95, 107, 101, 121>>)}

\* a field that holds nothing yet
NoValue == [type |-> "none"]

\* an invocation that has not begun
Idle ==
  [pc |-> "idle", prefix |-> NoValue, asked |-> 0, outcome |-> NoValue,
   result |-> NoValue]

InitGen ==
  /\ now = T0
  /\ v7state = [msecs |-> <<0, 0>>, seq |-> 0]
  /\ calls = <<>>

InitIdle ==
  /\ src = <<>>
  /\ enc = <<>>
  /\ text = <<>>
  /\ dec = [ok |-> TRUE, bytes |-> <<>>]
  /\ pc = "idle"

Init ==
  /\ variant \in {"base62", "base58"}
  /\ InitGen
  /\ InitIdle
  /\ inv = [k \in 1..MaxInv |-> Idle]
  /\ pair = NoValue

\* the alphabet of the build
Alphabet == IF variant = "base62" THEN Alphabet62 ELSE Alphabet58

\* a millisecond passes
Tick ==
  /\ Later(AddMs(T0, MaxTicks), now)
  /\ now' = AddMs(now, 1)
  /\ UNCHANGED <<variant, v7state, calls, codecVars, inv, pair>>

\* one call of the generator and what the caller gets from it
Call(prefix, rnd) ==
  LET state == V7State(v7state, now, rnd)
      uuid  == Stringify(V7Bytes(state, rnd))
  IN  /\ Len(calls) < MaxCalls
      /\ v7state' = state
      /\ calls' = Append(calls, [prefix |-> prefix, at |-> now, uuid |-> uuid,
                                 id |-> IF variant = "base62"
                                       THEN humanId(prefix, uuid)
                                       ELSE humanUUID(prefix, uuid)])
      /\ UNCHANGED <<variant, now, codecVars, inv, pair>>

GenerateId ==
  /\ variant = "base62"
  /\ \E prefix \in Prefixes \cup {Undefined}, rnd \in Rnds : Call(prefix, rnd)

GenerateUUID ==
  /\ variant = "base58"
  /\ \E prefix \in Prefixes, rnd \in Rnds : Call(prefix, rnd)

Next == Tick \/ GenerateId \/ GenerateUUID

Spec == Init /\ [][Next]_vars

(***************************************************************************)
(* The encoder alone, on inputs drawn from bounded sets.                   *)
(***************************************************************************)
ByteVals == {0, 1, 61, 255}

CharVals == {48, 49, 122, 90, 108, 95}

\* 36 bytes of 0xff, 32 zero bytes, and the text of a UUID
LongInputs ==
  {Repeat(255, 36), Repeat(0, 32),
   BufferFrom(Stringify(V7Bytes([msecs |-> T0, seq |-> 2748], [seq |-> 2748, tail |-> 255])))}

Inputs == SeqsUpTo(ByteVals, MaxLen) \cup LongInputs

Texts == SeqsUpTo(CharVals, MaxLen)

Encode ==
  /\ pc = "idle"
  /\ \E bytes \in Inputs :
       /\ src' = bytes
       /\ enc' = encode(bytes, Alphabet)
  /\ pc' = "encoded"
  /\ UNCHANGED <<genVars, inv, pair, text, dec>>

DecodeEncoded ==
  /\ pc = "encoded"
  /\ text' = enc
  /\ dec' = decode(enc, Alphabet)
  /\ pc' = "roundtrip"
  /\ UNCHANGED <<genVars, inv, pair, src, enc>>

Decode ==
  /\ pc = "idle"
  /\ \E t \in Texts :
       /\ text' = t
       /\ dec' = decode(t, Alphabet)
  /\ pc' = "decoded"
  /\ UNCHANGED <<genVars, inv, pair, src, enc>>

NextCodec == Encode \/ DecodeEncoded \/ Decode

SpecCodec == Init /\ [][NextCodec]_vars

(***************************************************************************)
(* Invocations in progress at the same time.  The generator is outside:    *)
(* what it answers an invocation, a value or a failure, is an input.  An   *)
(* invocation touches nothing but its own argument and locals, so its      *)
(* steps are: being called, asking the generator, and returning.           *)
(***************************************************************************)
\* the texts the generator may return
RawTexts ==
  {Stringify(V7Bytes([msecs |-> T0, seq |-> 0], [seq |-> 0, tail |-> 0])),
   Stringify(V7Bytes([msecs |-> AddMs(T0, 1), seq |-> 0], [seq |-> 0, tail |-> 0]))}

\* the errors the generator may raise
Failures == {"ClockUnavailable", "EntropyUnavailable"}

Outcomes ==
  {[ok |-> TRUE, value |-> u] : u \in RawTexts}
    \cup {[ok |-> FALSE, error |-> e] : e \in Failures}

\* the exported function of the build
generate(prefix, uuid) ==
  IF variant = "base62" THEN humanId(prefix, uuid) ELSE humanUUID(prefix, uuid)

\* the arguments the build accepts
Arguments == IF variant = "base62" THEN Prefixes \cup {Undefined} ELSE Prefixes

\* invocation k is called with a prefix, or without one
Invoke(k) ==
  /\ inv[k].pc = "idle"
  /\ \E prefix \in Arguments :
       inv' = [inv EXCEPT ![k] = [@ EXCEPT !.pc = "invoked", !.prefix = prefix]]
  /\ UNCHANGED <<genVars, codecVars, pair>>

\* a generator failure answered by asking the generator again
CallGenerator_retry(k) ==
  /\ inv[k].pc = "invoked"
  /\ \E o \in Outcomes :
       inv' = [inv EXCEPT ![k] =
                 IF o.ok
                 THEN [@ EXCEPT !.pc = "obtained", !.asked = @ + 1, !.outcome = o]
                 ELSE [@ EXCEPT !.asked = @ + 1, !.outcome = o]]
  /\ UNCHANGED <<genVars, codecVars, pair>>

\* v7() in invocation k: it returns a text, or it raises and the exception
\* leaves humanId, which has no handler
CallGenerator(k) ==
  /\ inv[k].pc = "invoked"
  /\ \E o \in Outcomes :
       inv' = [inv EXCEPT ![k] =
                 IF o.ok
                 THEN [@ EXCEPT !.pc = "obtained", !.asked = @ + 1, !.outcome = o]
                 ELSE [@ EXCEPT !.pc = "raised", !.asked = @ + 1, !.outcome = o,
                                !.result = [ok |-> FALSE, error |-> o.error]]]
  /\ UNCHANGED <<genVars, codecVars, pair>>

\* an invocation that appends to its identifier the count of the
\* identifiers returned before it
Return_counted(k) ==
  /\ inv[k].pc = "obtained"
  /\ inv' = [inv EXCEPT ![k] =
               [@ EXCEPT !.pc = "returned",
                         !.result =
                           [ok |-> TRUE,
                            id |-> Append(generate(inv[k].prefix, inv[k].outcome.value),
                                          48 + Cardinality({j \in 1..MaxInv :
                                                 inv[j].pc = "returned"}))]]]
  /\ UNCHANGED <<genVars, codecVars, pair>>

\* an invocation that keeps the generator's text in a variable of the
\* module: it returns the text that any invocation stored there
Return_shared(k) ==
  /\ inv[k].pc = "obtained"
  /\ \E j \in {i \in 1..MaxInv : inv[i].pc \in {"obtained", "returned"}} :
       inv' = [inv EXCEPT ![k] =
                 [@ EXCEPT !.pc = "returned",
                           !.result =
                             [ok |-> TRUE,
                              id |-> generate(inv[k].prefix, inv[j].outcome.value)]]]
  /\ UNCHANGED <<genVars, codecVars, pair>>

\* invocation k encodes the text it obtained and returns its identifier
Return(k) ==
  /\ inv[k].pc = "obtained"
  /\ inv' = [inv EXCEPT ![k] =
               [@ EXCEPT !.pc = "returned",
                         !.result =
                           [ok |-> TRUE,
                            id |-> generate(inv[k].prefix, inv[k].outcome.value)]]]
  /\ UNCHANGED <<genVars, codecVars, pair>>

NextInvoke == \E k \in 1..MaxInv : Invoke(k) \/ CallGenerator(k) \/ Return(k)

SpecInvoke == Init /\ [][NextInvoke]_vars

(***************************************************************************)
(* Two byte sequences of one length encoded with the same alphabet.        *)
(***************************************************************************)
OrderVals == {0, 10, 36, 255}

PairInputs == SeqsUpTo(OrderVals, MaxPairLen) \cup LongInputs \cup {BufferFrom(u) : u \in RawTexts}

EncodePair ==
  /\ pc = "idle"
  /\ \E a, b \in PairInputs :
       /\ Len(a) = Len(b)
       /\ pair' = [a |-> a, b |-> b,
                   ea |-> encode(a, Alphabet), eb |-> encode(b, Alphabet)]
  /\ pc' = "compared"
  /\ UNCHANGED <<genVars, inv, src, enc, text, dec>>

SpecOrder == Init /\ [][EncodePair]_vars

(***************************************************************************)
(* Properties.  A property of a single call is stated of the latest call:  *)
(* every call is the latest one in the state that follows it.              *)
(***************************************************************************)
Last == calls[Len(calls)]

\* the bytes the call gave to the encoder
RawValue(c) == BufferFrom(c.uuid)

\* what follows the prefix and its underscore in the call's identifier
EncodedPart(c) ==
  IF c.prefix.type = "undefined" THEN c.id
  ELSE SubSeq(c.id, Len(c.prefix.chars) + 2, Len(c.id))

\* Buffer.toString() of bytes; a byte outside ASCII reads as U+FFFD
BufferToString(bytes) ==
  [i \in 1..Len(bytes) |-> IF bytes[i] < 128 THEN bytes[i] ELSE 65533]

\* [0-9a-zA-Z]
Class62 == (48..57) \cup (97..122) \cup (65..90)

\* [123456789ABCDEFGHJKLMNPQRSTUVWXYZabcdefghijkmnopqrstuvwxyz]
Class58 == Class62 \ {48, 79, 73, 108}

Class == IF variant = "base62" THEN Class62 ELSE Class58

\* C1: a call with a prefix p, whatever p (the empty string and a prefix with
\* an underscore included), returns p, then one underscore, then the
\* encoding of the raw value; with the empty prefix it starts with "_".
C1_PrefixedFormat ==
  (calls # <<>> /\ Last.prefix.type = "string") =>
    /\ Last.id = Last.prefix.chars \o <<95>> \o encode(RawValue(Last), Alphabet)
    /\ Last.prefix.chars = <<>> => Last.id[1] = 95

C1_Witness ==
  /\ Len(calls) = 2
  /\ variant = "base62"
  /\ calls[1].prefix = Str(<<>>)
  /\ calls[2].prefix = Str(<<97, 112, 105, 95, 107, 101, 121>>)

\* C2: a call without a prefix returns the encoding of the raw value with
\* nothing prepended, and the result holds no underscore.
C2_BareFormat ==
  (calls # <<>> /\ Last.prefix.type = "undefined") =>
    /\ Last.id = encode(RawValue(Last), Alphabet)
    /\ 95 \notin Elems(Last.id)

C2_Witness == calls # <<>> /\ Last.prefix = Undefined /\ Len(Last.id) = 48

\* C3: decoding the encoding of a byte sequence with the same alphabet gives
\* the byte sequence back, in length and value, for both alphabets.
C3_RoundTrip == pc = "roundtrip" => dec.ok /\ dec.bytes = src

C3_Witness ==
  /\ pc = "roundtrip"
  /\ Len(src) = 3 /\ src[1] = 0 /\ src[2] = 0 /\ src[3] = 255
  /\ dec.bytes = src

\* C4: calls with the same prefix (or both without) for which the generator
\* returned distinct values return distinct identifiers.
C4_Unique ==
  \A i, j \in 1..Len(calls) :
    (i < j /\ calls[i].prefix = calls[j].prefix /\ calls[i].uuid # calls[j].uuid)
      => calls[i].id # calls[j].id

C4_Witness ==
  /\ Len(calls) = 2
  /\ calls[1].prefix = calls[2].prefix
  /\ calls[1].at = calls[2].at
  /\ calls[1].uuid # calls[2].uuid

\* C5: of two calls with the same prefix (or both without) and radix, the
\* second at least 1 ms after the first, the later identifier is greater
\* than or equal to the earlier one as a raw string.
C5_LaterIsGreater ==
  \A i, j \in 1..Len(calls) :
    (i < j /\ calls[i].prefix = calls[j].prefix /\ Later(calls[j].at, calls[i].at))
      => LexLeq(calls[i].id, calls[j].id)

\* the first 6 bytes of what the call's encoded part decodes to
First6(c) ==
  LET d == decode(EncodedPart(c), Alphabet).bytes
  IN  SubSeq(d, 1, IF Len(d) < 6 THEN Len(d) ELSE 6)

\* C6: of two calls, the first 6 bytes decoded from the earlier identifier
\* compare bytewise less than or equal to those of the later one, with and
\* without a prefix.
C6_TimestampOrder ==
  \A i \in 1..(Len(calls) - 1) :
    /\ decode(EncodedPart(calls[i]), Alphabet).ok
    /\ decode(EncodedPart(Last), Alphabet).ok
    /\ LexLeq(First6(calls[i]), First6(Last))

C6_Witness ==
  /\ Len(calls) = 2
  /\ Later(calls[2].at, calls[1].at)
  /\ LexLess(First6(calls[1]), First6(calls[2]))

\* C7: every character of an encoding is a character of the alphabet, in
\* [0-9a-zA-Z] for radix 62 and in the 58 characters without 0, O, I and l
\* for radix 58; the encoding of a non-empty byte sequence, as the text of
\* a UUID is, is not empty.
C7_AlphabetClosure ==
  pc \in {"encoded", "roundtrip"} =>
    /\ \A i \in 1..Len(enc) : enc[i] \in Elems(Alphabet) /\ enc[i] \in Class
    /\ src # <<>> => enc # <<>>

C7_Witness == pc = "encoded" /\ Len(src) = 36 /\ src[9] = 45 /\ Len(enc) > 36

\* C8: decode fails with InvalidCharacter, returning no bytes, exactly when
\* some character of the string, at any position, is not in the alphabet.
C8_DecodeRejects ==
  pc = "decoded" =>
    IF \E i \in 1..Len(text) : text[i] \notin Elems(Alphabet)
    THEN ~dec.ok /\ dec.error = "InvalidCharacter" /\ "bytes" \notin DOMAIN dec
    ELSE dec.ok

C8_Witness ==
  /\ pc = "decoded"
  /\ Len(text) = 3 /\ text[1] = 49 /\ text[2] = 122 /\ text[3] = 95
  /\ ~dec.ok

\* C9: L zero bytes encode to L copies of the alphabet's digit-0 character
\* (the empty string for L = 0), and L copies of the digit-0 character
\* decode to L zero bytes.
C9_ZeroBytes ==
  /\ (pc \in {"encoded", "roundtrip"} /\ src = Repeat(0, Len(src)))
       => enc = Repeat(Alphabet[1], Len(src))
  /\ (pc \in {"decoded", "roundtrip"} /\ text = Repeat(Alphabet[1], Len(text)))
       => dec.ok /\ dec.bytes = Repeat(0, Len(text))

C9_Witness ==
  /\ pc = "roundtrip"
  /\ src = Repeat(0, 32)
  /\ Len(text) = 32
  /\ dec.bytes = src

Returned == {k \in 1..MaxInv : inv[k].pc = "returned"}

\* the text invocation k obtained from the generator
Obtained(k) == inv[k].outcome.value

\* C11: two invocations given the same prefix (or both none) and the same
\* raw value by the generator, in the same build, return the same string,
\* whatever was called before them.
C11_Deterministic ==
  \A i, j \in Returned :
    (inv[i].prefix = inv[j].prefix /\ Obtained(i) = Obtained(j))
      => inv[i].result = inv[j].result

C11_Witness ==
  /\ Returned = 1..MaxInv
  /\ inv[1].prefix = Str(<<97, 112, 105, 95, 107, 101, 121>>)
  /\ inv[2].prefix = inv[1].prefix
  /\ Obtained(1) = Obtained(2)
  /\ inv[1].result = inv[2].result

\* C12: when the generator fails in an invocation, the invocation raises
\* the generator's error unchanged and returns no identifier; the generator
\* is asked once per invocation, never again; when the generator succeeds
\* the invocation raises nothing.
C12_FailurePropagates ==
  \A k \in 1..MaxInv :
    /\ inv[k].asked <= 1
    /\ inv[k].pc = "raised" =>
         /\ inv[k].asked = 1
         /\ ~inv[k].outcome.ok
         /\ inv[k].result = [ok |-> FALSE, error |-> inv[k].outcome.error]
    /\ (inv[k].asked > 0 /\ ~inv[k].outcome.ok) => inv[k].pc = "raised"
    /\ (inv[k].asked > 0 /\ inv[k].outcome.ok) =>
         /\ inv[k].pc \in {"obtained", "returned"}
         /\ inv[k].pc = "returned" => inv[k].result.ok

C12_Witness ==
  /\ inv[1].pc = "raised"
  /\ inv[1].result = [ok |-> FALSE, error |-> "EntropyUnavailable"]
  /\ inv[2].pc = "returned"

\* what invocation k returns when it runs alone
Alone(k) == [ok |-> TRUE, id |-> generate(inv[k].prefix, Obtained(k))]

\* C13: however the invocations interleave, each returns the identifier it
\* returns when run alone with its own prefix and its own raw value; none
\* carries the prefix or the encoded part of another.
C13_Independent == \A k \in Returned : inv[k].result = Alone(k)

C13_Witness ==
  /\ inv[1].pc = "returned"
  /\ inv[2].pc = "obtained"
  /\ inv[1].prefix # inv[2].prefix
  /\ Obtained(1) # Obtained(2)

\* the position of the last underscore of a string, 0 when it has none
LastUnderscore(str) ==
  LET at == {i \in 1..Len(str) : str[i] = Underscore}
  IN  IF at = {} THEN 0 ELSE CHOOSE i \in at : \A j \in at : j <= i

\* C16: the identifier splits at its last underscore into the prefix and
\* the encoding of the raw value, for every prefix, one with an underscore
\* of its own included; an identifier without a prefix has no underscore;
\* so two invocations that return the same identifier agree on whether a
\* prefix was given, on the prefix and on the raw value.
C16_Reversible ==
  /\ \A k \in Returned :
       LET id  == inv[k].result.id
           cut == LastUnderscore(id)
       IN  IF inv[k].prefix.type = "undefined"
           THEN cut = 0
           ELSE /\ cut > 0
                /\ SubSeq(id, 1, cut - 1) = inv[k].prefix.chars
                /\ SubSeq(id, cut + 1, Len(id))
                     = encode(BufferFrom(Obtained(k)), Alphabet)
  /\ \A i, j \in Returned :
       inv[i].result.id = inv[j].result.id
         => inv[i].prefix = inv[j].prefix /\ Obtained(i) = Obtained(j)

C16_Witness ==
  /\ Returned = 1..MaxInv
  /\ inv[1].prefix = Str(<<97, 112, 105, 95, 107, 101, 121>>)
  /\ LastUnderscore(inv[1].result.id) = 8
  /\ inv[2].prefix = Undefined
  /\ LastUnderscore(inv[2].result.id) = 0
  /\ Obtained(1) = Obtained(2)

\* the 48-bit timestamp as 6 bytes, most significant first
TimestampBytes(msecs) == Bytes3(msecs[1]) \o Bytes3(msecs[2])

\* C14: the byte sequence a call passes to the encoder is 16 bytes long and
\* its first 6 bytes are the 48-bit big-endian millisecond timestamp of the
\* value the generator returned.
C14_SixteenBytes ==
  calls # <<>> =>
    /\ Len(RawValue(Last)) = 16
    /\ SubSeq(RawValue(Last), 1, 6) = TimestampBytes(v7state.msecs)

\* a < b for byte sequences of one length read as big-endian unsigned
\* integers: the first byte that differs decides
NumLess(a, b) ==
  \E k \in 1..Len(a) : a[k] < b[k] /\ \A i \in 1..(k - 1) : a[i] = b[i]

\* C15: for two byte sequences of one length whose encodings have one
\* length, comparing the encodings as raw strings, by character code, gives
\* what comparing the byte sequences as big-endian unsigned integers gives,
\* under the 58-character and under the 62-character alphabet.
C15_OrderAgrees ==
  (pc = "compared" /\ Len(pair.ea) = Len(pair.eb)) =>
    /\ LexLess(pair.ea, pair.eb) <=> NumLess(pair.a, pair.b)
    /\ pair.ea = pair.eb <=> pair.a = pair.b

====
